---- MODULE Spec2Model ----
(***************************************************************************)
(* Model of the RESQ server workflow: the Express routes of                *)
(* server/routes.ts over the DatabaseStorage of server/database-storage.ts *)
(* and the insert schemas of shared/schema.ts.                             *)
(*                                                                         *)
(* Every table is a sequence whose index is the serial id of the row (no   *)
(* route deletes a row).  A nullable column holds an optional value:       *)
(* Null is <<>> and Some(v) is <<v>>.  A PIN code is a string of decimal   *)
(* digits, modelled as the sequence of its characters, so that the JS      *)
(* string comparison of the resolver is computed character by character.   *)
(***************************************************************************)
EXTENDS Integers, Sequences, FiniteSets, TLC

VARIABLES users, resourceRequests, donations, volunteers, emergencies,
          notifications, resp, calls, walletWrites, fanout, wallet, tasks, flow

store == <<users, resourceRequests, donations, volunteers, emergencies,
           notifications>>
\* the executions of POST /api/donations that are between two awaits, and the
\* history of the writes storage.updateUserWalletBalance has made
ledgerVars == <<calls, walletWrites>>
\* the execution of a create route that is between two awaits of its fan-out
fanoutVars == <<fanout>>
\* the browser: the state of WalletProvider, its calls in flight, and the
\* component that signs a transaction before it writes to the server
clientVars == <<wallet, tasks, flow>>
\* the server: the tables, the response and the executions in flight
serverVars == <<users, resourceRequests, donations, volunteers, emergencies,
               notifications, resp, calls, walletWrites, fanout>>
vars == <<users, resourceRequests, donations, volunteers, emergencies,
          notifications, resp, calls, walletWrites, fanout, wallet, tasks, flow>>

(* ---------------------------- bounds ---------------------------------- *)
MaxRequests == 1
MaxDonations == 2
MaxVolunteers == 1
MaxEmergencies == 1
MaxNotifications == 3
\* users registered where the routes fan notifications out to them
MaxUsers == 3
\* users registered where only the caller and one other user matter
MaxCallers == 2
\* users registered where the resolver is exercised
MaxRegistered == 3
\* executions of POST /api/donations in flight at the same time
MaxCalls == 2
\* executions of POST /api/donations started one after the other
MaxTransfers == 1
\* executions of a create route started one after the other
MaxFanouts == 1
\* calls of WalletProvider in flight at the same time
MaxTasks == 2

(* ------------------------ optional values ------------------------------ *)
Null == <<>>
Some(v) == <<v>>
Val(o) == o[1]

\* JS truthiness of an optional string / number / PIN code
TruthyStr(o) == o # Null /\ Val(o) # ""
TruthyNum(o) == o # Null /\ Val(o) # 0
TruthyPin(o) == o # Null /\ Val(o) # <<>>

\* `x || null` on an optional PIN code
OrNull(o) == IF TruthyPin(o) THEN o ELSE Null

(* ------------------------- string comparison --------------------------- *)
\* a <= b for two JS strings, compared code unit by code unit
RECURSIVE JsStrLeq(_, _)
JsStrLeq(a, b) ==
  IF a = <<>> THEN TRUE
  ELSE IF b = <<>> THEN FALSE
  ELSE IF a[1] < b[1] THEN TRUE
  ELSE IF a[1] > b[1] THEN FALSE
  ELSE JsStrLeq(Tail(a), Tail(b))

RECURSIVE DecimalValue(_)
DecimalValue(s) ==
  IF s = <<>> THEN 0 ELSE 10 * DecimalValue(SubSeq(s, 1, Len(s) - 1)) + s[Len(s)]

\* the comparison a resolver written over numbers would make
NumericLeq(a, b) == DecimalValue(a) <= DecimalValue(b)

PinLeq(a, b) == JsStrLeq(a, b)

(* ------------------------------ users ---------------------------------- *)
UserTypes == {"local", "firestation", "ngo"}

\* rows of the users table in id order
UserIds == DOMAIN users

\* storage.getUser
getUser(id) == IF id \in DOMAIN users THEN Some(users[id]) ELSE Null

\* every order in which a SELECT without ORDER BY may return the rows ids
RECURSIVE Orders(_)
Orders(ids) ==
  IF ids = {} THEN { <<>> }
  ELSE UNION { { <<x>> \o o : o \in Orders(ids \ {x}) } : x \in ids }

FireStationIds(us) == { i \in DOMAIN us : us[i].userType = "firestation" }
NgoIds(us) == { i \in DOMAIN us : us[i].userType = "ngo" }

\* the predicate of Array.find in getFireStationsByPinCode
InRange(fs, pinCode) ==
  /\ fs.pinCodeRangeStart # Null
  /\ fs.pinCodeRangeEnd # Null
  /\ PinLeq(Val(fs.pinCodeRangeStart), pinCode)
  /\ PinLeq(pinCode, Val(fs.pinCodeRangeEnd))

\* Array.find over the roster: the first matching entry, or undefined
RECURSIVE FindFirst(_, _, _)
FindFirst(us, roster, pinCode) ==
  IF roster = <<>> THEN Null
  ELSE IF InRange(us[roster[1]], pinCode) THEN Some(roster[1])
  ELSE FindFirst(us, Tail(roster), pinCode)

\* a resolver that takes the head of the roster without looking at its range
FirstOfRoster(us, roster, pinCode) ==
  IF roster = <<>> THEN Null ELSE Some(roster[1])

\* storage.getFireStationsByPinCode, given the order the SELECT returned
getFireStationsByPinCode(us, roster, pinCode) == FindFirst(us, roster, pinCode)

\* the row storage.createUser leaves in the table
NewUser(us, roster, insertUser) ==
  [ id |-> Len(us) + 1,
    userType |-> insertUser.userType,
    pinCode |-> OrNull(insertUser.pinCode),
    pinCodeRangeStart |-> OrNull(insertUser.pinCodeRangeStart),
    pinCodeRangeEnd |-> OrNull(insertUser.pinCodeRangeEnd),
    walletBalance |-> 0,
    assignedFireStationId |->
      IF insertUser.userType = "local" /\ TruthyPin(insertUser.pinCode)
      THEN getFireStationsByPinCode(us, roster, Val(insertUser.pinCode))
      ELSE Null ]

\* registration payloads
Pins == { <<1, 5>>, <<1, 0>> }
InsertLocals ==
  { [userType |-> "local", pinCode |-> p, pinCodeRangeStart |-> Null,
     pinCodeRangeEnd |-> Null] : p \in {Null, Some(<<>>)} \cup {Some(x) : x \in Pins} }
InsertStations ==
  { [userType |-> "firestation", pinCode |-> Null, pinCodeRangeStart |-> r[1],
     pinCodeRangeEnd |-> r[2]] :
       r \in { <<Some(<<1>>), Some(<<2>>)>>, <<Some(<<9>>), Some(<<1, 1>>)>>,
               <<Some(<<1>>), Null>>, <<Some(<<>>), Some(<<2>>)>> } }
InsertNgos ==
  { [userType |-> "ngo", pinCode |-> Null, pinCodeRangeStart |-> Null,
     pinCodeRangeEnd |-> Null] }
InsertUsers == InsertLocals \cup InsertStations \cup InsertNgos

\* the assignment a resident would get if it were resolved again
Reassigned(us, roster) ==
  [ i \in DOMAIN us |->
      IF us[i].userType = "local" /\ us[i].pinCode # Null
      THEN [us[i] EXCEPT !.assignedFireStationId =
                           FindFirst(us, roster, Val(us[i].pinCode))]
      ELSE us[i] ]

\* a registration that resolves every resident again once the row is stored
CreateUserReassigning(insertUser) ==
  /\ \E roster \in Orders(FireStationIds(users)) :
       LET us == Append(users, NewUser(users, roster, insertUser)) IN
       \E again \in Orders(FireStationIds(us)) : users' = Reassigned(us, again)
  /\ resp' = [op |-> "createUser", actor |-> 0, body |-> insertUser, code |-> 201]
  /\ UNCHANGED <<resourceRequests, donations, volunteers, emergencies, notifications>>

\* storage.createUser, as called by registration
CreateUser(insertUser) ==
  /\ \E roster \in Orders(FireStationIds(users)) :
       users' = Append(users, NewUser(users, roster, insertUser))
  /\ resp' = [op |-> "createUser", actor |-> 0, body |-> insertUser, code |-> 201]
  /\ UNCHANGED <<resourceRequests, donations, volunteers, emergencies, notifications>>

\* PIN codes a lookup is made for (the empty string included)
LookupPins == Pins \cup { <<>>, <<2>> }

\* a call of storage.getFireStationsByPinCode: a read of the users table
Resolve(pinCode) ==
  /\ \E roster \in Orders(FireStationIds(users)) :
       resp' = [ op |-> "getFireStationsByPinCode", actor |-> 0, code |-> 200,
                 body |-> [ pinCode |-> pinCode, roster |-> roster,
                            found |-> getFireStationsByPinCode(users, roster, pinCode) ] ]
  /\ UNCHANGED store

(* -------------------------- notifications ----------------------------- *)
\* an insert that keeps the read flag the caller passed
createNotificationAsPassed(ns, notification) ==
  Append(ns, [ id |-> Len(ns) + 1,
               userId |-> notification.userId,
               title |-> notification.title,
               content |-> notification.content,
               type |-> notification.type,
               read |-> notification.read ])

\* storage.createNotification: the row is stored unread whatever the caller passed
createNotification(ns, notification) ==
  Append(ns, [ id |-> Len(ns) + 1,
               userId |-> notification.userId,
               title |-> notification.title,
               content |-> notification.content,
               type |-> notification.type,
               read |-> FALSE ])

\* a loop that stops one recipient short
RECURSIVE NotifyAllButLast(_, _, _)
NotifyAllButLast(ns, recipients, notification) ==
  IF Len(recipients) <= 1 THEN ns
  ELSE NotifyAllButLast(createNotification(ns, [notification EXCEPT !.userId = recipients[1]]),
                        Tail(recipients), notification)

\* a for-loop of storage.createNotification over the recipients, in order
RECURSIVE NotifyAll(_, _, _)
NotifyAll(ns, recipients, notification) ==
  IF recipients = <<>> THEN ns
  ELSE NotifyAll(createNotification(ns, [notification EXCEPT !.userId = recipients[1]]),
                 Tail(recipients), notification)

\* the text of a notification: who acted, and the number and name it mentions
Content(who, n, what) == [who |-> who, n |-> n, what |-> what]

(* ------------------------------ actors --------------------------------- *)
\* 0 is a request without a session; any other actor is the logged-in user
NoSession == 0
Actors == {NoSession} \cup UserIds

Respond(op, actor, body, code) ==
  resp' = [op |-> op, actor |-> actor, body |-> body, code |-> code]

(* ------------------------- resource requests --------------------------- *)
Urgencies == {"low", "medium", "high", "critical"}
RequestStatuses == {"pending", "fulfilled", "cancelled"}

\* bodies of POST /api/resource-requests
RequestBodies ==
  { [resourceType |-> Some("Water"), quantity |-> Some(50), urgency |-> "high",
     requesterId |-> Null, status |-> Null],
    [resourceType |-> Some("Water"), quantity |-> Some(50), urgency |-> "high",
     requesterId |-> Some(1), status |-> Some("fulfilled")],
    [resourceType |-> Null, quantity |-> Some(50), urgency |-> "asap",
     requesterId |-> Null, status |-> Null] }

\* insertResourceRequestSchema.parse succeeds
ValidResourceRequest(obj) ==
  /\ obj.requesterId # Null
  /\ obj.resourceType # Null
  /\ obj.quantity # Null
  /\ obj.urgency \in Urgencies

\* what insertResourceRequestSchema.parse returns: the picked keys only
ParseResourceRequest(obj) ==
  [ requesterId |-> Val(obj.requesterId),
    resourceType |-> Val(obj.resourceType),
    quantity |-> Val(obj.quantity),
    urgency |-> obj.urgency ]

\* an insert that stores the status of the row it is given and has no default
StatusAsParsed(row, dflt) ==
  IF "status" \in DOMAIN row /\ TruthyStr(row.status) THEN Val(row.status) ELSE "unset"

\* `request.status || dflt` in the storage create methods
StatusOr(row, dflt) ==
  IF "status" \in DOMAIN row /\ TruthyStr(row.status) THEN Val(row.status) ELSE dflt

\* storage.createResourceRequest
createResourceRequest(rs, request) ==
  Append(rs, [ id |-> Len(rs) + 1,
               requesterId |-> request.requesterId,
               resourceType |-> request.resourceType,
               quantity |-> request.quantity,
               urgency |-> request.urgency,
               status |-> StatusOr(request, "pending") ])

\* a role check that only keeps residents out
IsNotLocal(user) == user.userType # "local"

\* the role check of POST /api/resource-requests and POST /api/emergencies
IsFireStation(user) == user.userType = "firestation"

\* a role check that only keeps fire stations out
IsNotFireStation(user) == user.userType # "firestation"

\* the role check of POST /api/volunteers
IsLocal(user) == user.userType = "local"

\* POST /api/resource-requests
CreateResourceRequest(actor, body) ==
  LET op == "createResourceRequest" IN
  IF actor = NoSession THEN
    Respond(op, actor, body, 401) /\ UNCHANGED store
  ELSE IF ~IsFireStation(users[actor]) THEN
    Respond(op, actor, body, 403) /\ UNCHANGED store
  ELSE
    LET obj == [body EXCEPT !.requesterId = Some(actor), !.status = Some("pending")] IN
    IF ~ValidResourceRequest(obj) THEN
      Respond(op, actor, body, 400) /\ UNCHANGED store
    ELSE
      LET validatedData == ParseResourceRequest(obj) IN
      /\ Len(resourceRequests) < MaxRequests
      /\ Len(notifications) + Cardinality(NgoIds(users)) <= MaxNotifications
      /\ resourceRequests' = createResourceRequest(resourceRequests, validatedData)
      /\ \E ngos \in Orders(NgoIds(users)) :
           notifications' =
             NotifyAll(notifications, ngos,
                       [ userId |-> 0, title |-> "Resource Request", type |-> "request",
                         read |-> FALSE,
                         content |-> Content(actor, Some(validatedData.quantity),
                                             Some(validatedData.resourceType)) ])
      /\ Respond(op, actor, body, 201)
      /\ UNCHANGED <<users, donations, volunteers, emergencies>>

\* a status check that only asks for a status to be present
StatusPresent(status) == status # Null

\* the status check of PATCH /api/resource-requests/:id
AcceptedStatus(status) == status # Null /\ Val(status) \in RequestStatuses

\* storage.updateResourceRequestStatus on an existing row
updateResourceRequestStatus(rs, requestId, status) ==
  [rs EXCEPT ![requestId].status = status]

PatchStatuses == {Null, Some("pending"), Some("fulfilled"), Some("cancelled"), Some("archived")}

\* PATCH /api/resource-requests/:id
UpdateResourceRequestStatus(actor, requestId, status) ==
  LET op == "updateResourceRequestStatus"
      body == [requestId |-> requestId, status |-> status] IN
  IF actor = NoSession THEN
    Respond(op, actor, body, 401) /\ UNCHANGED store
  ELSE IF ~AcceptedStatus(status) THEN
    Respond(op, actor, body, 400) /\ UNCHANGED store
  ELSE IF requestId \notin DOMAIN resourceRequests THEN
    Respond(op, actor, body, 404) /\ UNCHANGED store
  ELSE
    /\ resourceRequests' = updateResourceRequestStatus(resourceRequests, requestId, Val(status))
    /\ Respond(op, actor, body, 200)
    /\ UNCHANGED <<users, donations, volunteers, emergencies, notifications>>

(* ------------------------------ wallet --------------------------------- *)
\* storage.updateUserWalletBalance: read the row, write balance + amount;
\* an unknown user id changes nothing and raises no error
updateUserWalletBalance(us, userId, amount) ==
  IF userId \notin DOMAIN us THEN us
  ELSE [us EXCEPT ![userId].walletBalance = us[userId].walletBalance + amount]

(* ----------------------------- donations ------------------------------- *)
\* an id no registration can have produced
UnknownUserId == MaxUsers + MaxCallers + MaxRegistered + 1

DonationBody(recipientId, resourceType, resourceQuantity, amount, currency) ==
  [ recipientId |-> recipientId, resourceType |-> resourceType,
    resourceQuantity |-> resourceQuantity, amount |-> amount, currency |-> currency,
    donorId |-> Null, status |-> Null ]

\* bodies of POST /api/donations
DonationBodies ==
  { \* money only, to the first user, the second user and a user that does not exist
    DonationBody(Some(1), Null, Null, Some(20), Some("USDC")),
    DonationBody(Some(2), Null, Null, Some(20), Some("USDC")),
    DonationBody(Some(UnknownUserId), Null, Null, Some(20), Some("USDC")),
    \* resource only
    DonationBody(Some(1), Some("Water"), Some(5), Null, Null),
    \* both groups
    DonationBody(Some(1), Some("Water"), Some(5), Some(20), Some("USDC")),
    \* neither group
    DonationBody(Some(1), Null, Null, Null, Null),
    \* part of a group
    DonationBody(Some(1), Null, Null, Some(20), Null),
    \* an empty currency string
    DonationBody(Some(1), Null, Null, Some(20), Some("")),
    \* no recipient
    DonationBody(Null, Null, Null, Some(20), Some("USDC")) }

\* bodies that carry a status of their own: one with money, one with a resource
StatusBodies ==
  { [b EXCEPT !.status = Some("completed")] :
      b \in { DonationBody(Some(1), Null, Null, Some(20), Some("USDC")),
              DonationBody(Some(1), Some("Water"), Some(5), Null, Null) } }

\* bodies with an amount above and below zero, to the first and the second user
SignedBodies ==
  { DonationBody(Some(r), Null, Null, Some(a), Some("USDC")) :
      r \in {1, 2}, a \in {20, 0 - 20} }

\* the bodies that carry an amount and a currency and name a recipient
MoneyBodies ==
  { b \in DonationBodies :
      b.recipientId # Null /\ b.amount # Null /\ b.currency # Null /\ b.resourceType = Null }

\* insertDonationSchema.parse succeeds: the two notNull columns are present
ValidDonation(obj) == obj.donorId # Null /\ obj.recipientId # Null

\* what insertDonationSchema.parse returns: the picked keys only
ParseDonation(obj) ==
  [ donorId |-> Val(obj.donorId),
    recipientId |-> Val(obj.recipientId),
    resourceType |-> obj.resourceType,
    resourceQuantity |-> obj.resourceQuantity,
    amount |-> obj.amount,
    currency |-> obj.currency ]

\* `validatedData.amount && validatedData.currency`
IsMonetary(validatedData) ==
  TruthyNum(validatedData.amount) /\ TruthyStr(validatedData.currency)

\* storage.createDonation
createDonation(ds, donation) ==
  Append(ds, [ id |-> Len(ds) + 1,
               donorId |-> donation.donorId,
               recipientId |-> donation.recipientId,
               resourceType |-> donation.resourceType,
               resourceQuantity |-> donation.resourceQuantity,
               amount |-> donation.amount,
               currency |-> donation.currency,
               status |-> StatusOr(donation, "pending") ])

\* a ledger that debits the donor and never credits the recipient
DebitOnly(us, validatedData) ==
  IF IsMonetary(validatedData)
  THEN updateUserWalletBalance(us, validatedData.donorId, 0 - Val(validatedData.amount))
  ELSE us

\* a ledger that moves nothing when the donor's balance is below the amount
TransferIfFunded(us, validatedData) ==
  IF /\ IsMonetary(validatedData)
     /\ us[validatedData.donorId].walletBalance >= Val(validatedData.amount)
  THEN updateUserWalletBalance(
         updateUserWalletBalance(us, validatedData.donorId, 0 - Val(validatedData.amount)),
         validatedData.recipientId, Val(validatedData.amount))
  ELSE us

\* the two ledger calls of POST /api/donations: debit the donor, credit the recipient
Transfer(us, validatedData) ==
  IF IsMonetary(validatedData)
  THEN updateUserWalletBalance(
         updateUserWalletBalance(us, validatedData.donorId, 0 - Val(validatedData.amount)),
         validatedData.recipientId, Val(validatedData.amount))
  ELSE us

\* POST /api/donations
CreateDonation(actor, body) ==
  LET op == "createDonation" IN
  IF actor = NoSession THEN
    Respond(op, actor, body, 401) /\ UNCHANGED store
  ELSE
    LET obj == [body EXCEPT !.donorId = Some(actor), !.status = Some("pending")] IN
    IF ~ValidDonation(obj) THEN
      Respond(op, actor, body, 400) /\ UNCHANGED store
    ELSE
      LET validatedData == ParseDonation(obj)
          recipient == getUser(validatedData.recipientId) IN
      /\ Len(donations) < MaxDonations
      /\ Len(notifications) < MaxNotifications
      /\ users' = Transfer(users, validatedData)
      /\ donations' = createDonation(donations, validatedData)
      /\ notifications' =
           IF recipient # Null
           THEN createNotification(notifications,
                  [ userId |-> Val(recipient).id, title |-> "New Donation",
                    type |-> "donation", read |-> FALSE,
                    content |-> IF TruthyStr(validatedData.resourceType)
                                THEN Content(actor, validatedData.resourceQuantity,
                                             validatedData.resourceType)
                                ELSE Content(actor, validatedData.amount,
                                             validatedData.currency) ])
           ELSE notifications
      /\ Respond(op, actor, body, 201)
      /\ UNCHANGED <<resourceRequests, volunteers, emergencies>>

(* ------------------- donations, one await at a time -------------------- *)
\* POST /api/donations yields at every await.  An execution in flight is a
\* record of calls: pc names the statement it is about to run, step the query
\* inside storage.updateUserWalletBalance, read the balance that query read,
\* version the number of writes the row had received when it was read, and
\* before the balances and table sizes when the request arrived.
Calls == 1..MaxCalls

Balances(us) == [ i \in DOMAIN us |-> us[i].walletBalance ]

IdleCall ==
  [ pc |-> "idle", step |-> "select", actor |-> 0,
    body |-> DonationBody(Null, Null, Null, Null, Null),
    read |-> 0, version |-> 0,
    before |-> [balances |-> <<>>, donations |-> 0, notifications |-> 0] ]

InFlight == { p \in Calls : calls[p].pc # "idle" }

\* the bodies that name a recipient and carry an amount, with or without a currency
LedgerBodies ==
  { b \in DonationBodies :
      b.recipientId # Null /\ b.amount # Null /\ b.resourceType = Null }

\* the bodies that move money to a user that can be registered
RaceBodies ==
  { b \in MoneyBodies : TruthyStr(b.currency) /\ Val(b.recipientId) <= MaxCallers }

\* validatedData of an execution in flight
ValidatedData(c) ==
  ParseDonation([c.body EXCEPT !.donorId = Some(c.actor), !.status = Some("pending")])

\* a handler that stores the donation before it touches the ledger
NextPcInsertFirst(pc, monetary) ==
  CASE pc = "idle" -> "insert"
    [] pc = "insert" -> IF monetary THEN "debit" ELSE "notify"
    [] pc = "debit" -> "credit"
    [] pc = "credit" -> "notify"
    [] pc = "notify" -> "idle"

\* the order of the statements of the handler
NextPc(pc, monetary) ==
  CASE pc = "idle" -> IF monetary THEN "debit" ELSE "insert"
    [] pc = "debit" -> "credit"
    [] pc = "credit" -> "insert"
    [] pc = "insert" -> "notify"
    [] pc = "notify" -> "idle"

\* the arguments of the call of storage.updateUserWalletBalance at pc
LedgerUser(c) ==
  IF c.pc = "debit" THEN c.actor ELSE ValidatedData(c).recipientId
LedgerAmount(c) ==
  IF c.pc = "debit" THEN 0 - Val(ValidatedData(c).amount) ELSE Val(ValidatedData(c).amount)

\* the writes the row of a user has received
WritesOf(ws, userId) == SelectSeq(ws, LAMBDA w : w.userId = userId)

\* an UPDATE that adds to the balance the row has when the statement runs
IncrementBalance(us, userId, read, amount) ==
  [us EXCEPT ![userId].walletBalance = us[userId].walletBalance + amount]

\* the UPDATE of storage.updateUserWalletBalance: newBalance = balance read + amount
WriteBalance(us, userId, read, amount) ==
  [us EXCEPT ![userId].walletBalance = read + amount]

\* the request arrives: authentication and insertDonationSchema.parse
BeginDonation(p, actor, body) ==
  LET op == "createDonation" IN
  /\ calls[p].pc = "idle"
  /\ IF actor = NoSession THEN
       Respond(op, actor, body, 401) /\ UNCHANGED <<store, ledgerVars>>
     ELSE
       LET obj == [body EXCEPT !.donorId = Some(actor), !.status = Some("pending")] IN
       IF ~ValidDonation(obj) THEN
         Respond(op, actor, body, 400) /\ UNCHANGED <<store, ledgerVars>>
       ELSE
         /\ calls' = [calls EXCEPT ![p] =
              [ pc |-> NextPc("idle", IsMonetary(ParseDonation(obj))),
                step |-> "select",
                actor |-> actor,
                body |-> body,
                read |-> 0, version |-> 0,
                before |-> [ balances |-> Balances(users),
                             donations |-> Len(donations),
                             notifications |-> Len(notifications) ] ]]
         /\ UNCHANGED <<store, resp, walletWrites>>

\* storage.getUser inside storage.updateUserWalletBalance
SelectUser(p) ==
  LET c == calls[p]
      userId == LedgerUser(c) IN
  /\ c.pc \in {"debit", "credit"}
  /\ c.step = "select"
  /\ calls' = [calls EXCEPT ![p] =
       IF userId \notin DOMAIN users
       THEN [c EXCEPT !.pc = NextPc(c.pc, TRUE)]
       ELSE [c EXCEPT !.step = "update",
                      !.read = users[userId].walletBalance,
                      !.version = Len(WritesOf(walletWrites, userId))]]
  /\ UNCHANGED <<store, resp, walletWrites>>

\* db.update(users).set({ walletBalance: newBalance }) of the same call
UpdateBalance(p) ==
  LET c == calls[p]
      userId == LedgerUser(c) IN
  /\ c.pc \in {"debit", "credit"}
  /\ c.step = "update"
  /\ users' = WriteBalance(users, userId, c.read, LedgerAmount(c))
  /\ walletWrites' = Append(walletWrites,
       [ userId |-> userId, amount |-> LedgerAmount(c), read |-> c.read,
         version |-> c.version ])
  /\ calls' = [calls EXCEPT ![p] =
       [c EXCEPT !.pc = NextPc(c.pc, TRUE), !.step = "select"]]
  /\ UNCHANGED <<resourceRequests, donations, volunteers, emergencies, notifications, resp>>

\* storage.createDonation(validatedData)
InsertDonation(p) ==
  LET c == calls[p] IN
  /\ c.pc = "insert"
  /\ donations' = createDonation(donations, ValidatedData(c))
  /\ calls' = [calls EXCEPT ![p] =
       [c EXCEPT !.pc = NextPc(c.pc, IsMonetary(ValidatedData(c)))]]
  /\ UNCHANGED <<users, resourceRequests, volunteers, emergencies, notifications, resp,
                 walletWrites>>

\* storage.getUser(recipientId), storage.createNotification and res.status(201)
NotifyRecipient(p) ==
  LET c == calls[p]
      validatedData == ValidatedData(c)
      recipient == getUser(validatedData.recipientId) IN
  /\ c.pc = "notify"
  /\ notifications' =
       IF recipient # Null
       THEN createNotification(notifications,
              [ userId |-> Val(recipient).id, title |-> "New Donation",
                type |-> "donation", read |-> FALSE,
                content |-> IF TruthyStr(validatedData.resourceType)
                            THEN Content(c.actor, validatedData.resourceQuantity,
                                         validatedData.resourceType)
                            ELSE Content(c.actor, validatedData.amount,
                                         validatedData.currency) ])
       ELSE notifications
  /\ calls' = [calls EXCEPT ![p] = IdleCall]
  /\ Respond("createDonation", c.actor, c.body, 201)
  /\ UNCHANGED <<users, resourceRequests, donations, volunteers, emergencies, walletWrites>>

\* a catch block that puts the balances back as they were when the request arrived
ThrowErrorUndoing(p) ==
  LET c == calls[p] IN
  /\ c.pc # "idle"
  /\ calls' = [calls EXCEPT ![p] = IdleCall]
  /\ Respond("createDonation", c.actor, c.body, 400)
  /\ users' = [ i \in DOMAIN users |->
                 IF i \in DOMAIN c.before.balances
                 THEN [users[i] EXCEPT !.walletBalance = c.before.balances[i]]
                 ELSE users[i] ]
  /\ UNCHANGED <<resourceRequests, donations, volunteers, emergencies, notifications,
                 walletWrites>>

\* the storage call the execution is waiting for rejects: the catch block
\* answers 400 and nothing that was written is undone
ThrowError(p) ==
  LET c == calls[p] IN
  /\ c.pc # "idle"
  /\ calls' = [calls EXCEPT ![p] = IdleCall]
  /\ Respond("createDonation", c.actor, c.body, 400)
  /\ UNCHANGED <<store, walletWrites>>

(* ----------------------------- volunteers ------------------------------ *)
\* bodies of POST /api/volunteers
VolunteerBodies ==
  { [fireStationId |-> f, userId |-> Null, status |-> Null] :
      f \in {Null, Some(0), Some(1)} }
  \cup { [fireStationId |-> Some(1), userId |-> Some(1), status |-> Some("inactive")] }

\* a test that takes any id that is present, 0 included
IdPresent(o) == o # Null

\* JS truthiness of an optional id
TruthyId(o) == o # Null /\ Val(o) # 0

\* insertVolunteerSchema.parse succeeds
ValidVolunteer(obj) == obj.userId # Null /\ obj.fireStationId # Null

\* what insertVolunteerSchema.parse returns: the picked keys only
ParseVolunteer(obj) ==
  [ userId |-> Val(obj.userId), fireStationId |-> Val(obj.fireStationId) ]

\* storage.createVolunteer
createVolunteer(vs, volunteer) ==
  Append(vs, [ id |-> Len(vs) + 1,
               userId |-> volunteer.userId,
               fireStationId |-> volunteer.fireStationId,
               status |-> StatusOr(volunteer, "active") ])

\* a fallback that takes the caller for the fire station when none is known
fireStationIdOrCaller(user, body) ==
  IF TruthyId(body.fireStationId) THEN body.fireStationId
  ELSE IF TruthyId(user.assignedFireStationId) THEN user.assignedFireStationId
  ELSE Some(user.id)

\* `let fireStationId = req.body.fireStationId;
\*  if (!fireStationId && user.assignedFireStationId) fireStationId = user.assignedFireStationId`
fireStationIdOf(user, body) ==
  IF ~TruthyId(body.fireStationId) /\ TruthyId(user.assignedFireStationId)
  THEN user.assignedFireStationId
  ELSE body.fireStationId

\* POST /api/volunteers
CreateVolunteer(actor, body) ==
  LET op == "createVolunteer" IN
  IF actor = NoSession THEN
    Respond(op, actor, body, 401) /\ UNCHANGED store
  ELSE IF ~IsLocal(users[actor]) THEN
    Respond(op, actor, body, 403) /\ UNCHANGED store
  ELSE
    LET fireStationId == fireStationIdOf(users[actor], body)
        obj == [body EXCEPT !.userId = Some(actor), !.fireStationId = fireStationId,
                            !.status = Some("active")] IN
    IF ~ValidVolunteer(obj) THEN
      Respond(op, actor, body, 400) /\ UNCHANGED store
    ELSE
      LET validatedData == ParseVolunteer(obj) IN
      /\ Len(volunteers) < MaxVolunteers
      /\ Len(notifications) < MaxNotifications
      /\ volunteers' = createVolunteer(volunteers, validatedData)
      /\ notifications' =
           createNotification(notifications,
             [ userId |-> Val(fireStationId), title |-> "New Volunteer",
               type |-> "volunteer", read |-> FALSE,
               content |-> Content(actor, Null, Null) ])
      /\ Respond(op, actor, body, 201)
      /\ UNCHANGED <<users, resourceRequests, donations, emergencies>>

(* ----------------------------- emergencies ----------------------------- *)
Severities == {"low", "medium", "high", "critical"}

\* bodies of POST /api/emergencies (description and location follow title)
EmergencyBodies ==
  { [title |-> Some("Fire"), severity |-> "high", reporterId |-> Null, status |-> Null],
    [title |-> Some("Fire"), severity |-> "high", reporterId |-> Some(1),
     status |-> Some("resolved")],
    [title |-> Null, severity |-> "severe", reporterId |-> Null, status |-> Null] }

\* insertEmergencySchema.parse succeeds
ValidEmergency(obj) ==
  /\ obj.reporterId # Null
  /\ obj.title # Null
  /\ obj.severity \in Severities

\* what insertEmergencySchema.parse returns: the picked keys only
ParseEmergency(obj) ==
  [ reporterId |-> Val(obj.reporterId), title |-> Val(obj.title),
    severity |-> obj.severity ]

\* storage.createEmergency
createEmergency(es, emergency) ==
  Append(es, [ id |-> Len(es) + 1,
               reporterId |-> emergency.reporterId,
               title |-> emergency.title,
               severity |-> emergency.severity,
               status |-> StatusOr(emergency, "active") ])

\* the roster without the filter on the reporter
EveryFireStation(us, actor) == FireStationIds(us)

\* getAllFireStations().filter(station => station.id !== user.id)
OtherFireStations(us, actor) == FireStationIds(us) \ {actor}

\* POST /api/emergencies
CreateEmergency(actor, body) ==
  LET op == "createEmergency" IN
  IF actor = NoSession THEN
    Respond(op, actor, body, 401) /\ UNCHANGED store
  ELSE IF ~IsFireStation(users[actor]) THEN
    Respond(op, actor, body, 403) /\ UNCHANGED store
  ELSE
    LET obj == [body EXCEPT !.reporterId = Some(actor), !.status = Some("active")] IN
    IF ~ValidEmergency(obj) THEN
      Respond(op, actor, body, 400) /\ UNCHANGED store
    ELSE
      LET validatedData == ParseEmergency(obj) IN
      /\ Len(emergencies) < MaxEmergencies
      /\ Len(notifications) + Cardinality(OtherFireStations(users, actor)) <= MaxNotifications
      /\ emergencies' = createEmergency(emergencies, validatedData)
      /\ \E otherFireStations \in Orders(OtherFireStations(users, actor)) :
           notifications' =
             NotifyAll(notifications, otherFireStations,
                       [ userId |-> 0, title |-> "Emergency Alert", type |-> "emergency",
                         read |-> FALSE,
                         content |-> Content(actor, Null, Some(validatedData.title)) ])
      /\ Respond(op, actor, body, 201)
      /\ UNCHANGED <<users, resourceRequests, donations, volunteers>>

(* ------------------- create routes, one await at a time ---------------- *)
\* POST /api/resource-requests, /api/emergencies and /api/volunteers yield at
\* every await.  The execution in flight is fanout: pc names the storage call
\* it is waiting for, roster the recipients the route has selected, left those
\* not yet notified, and before the table sizes when the request arrived.
IdleFanout ==
  [ pc |-> "idle", op |-> "none", actor |-> 0, body |-> Null,
    roster |-> <<>>, left |-> <<>>,
    before |-> [entities |-> 0, notifications |-> 0] ]

\* the table a create route inserts into
EntitiesOf(op) ==
  CASE op = "createResourceRequest" -> resourceRequests
    [] op = "createEmergency" -> emergencies
    [] op = "createVolunteer" -> volunteers

\* the execution once the body has passed the checks of the route
StartFanout(op, actor, body, roster) ==
  [ pc |-> "insert", op |-> op, actor |-> actor, body |-> body,
    roster |-> roster, left |-> roster,
    before |-> [ entities |-> Len(EntitiesOf(op)),
                 notifications |-> Len(notifications) ] ]

\* the object the route hands to the insert schema
FanoutObject(f) ==
  CASE f.op = "createResourceRequest" ->
         [f.body EXCEPT !.requesterId = Some(f.actor), !.status = Some("pending")]
    [] f.op = "createEmergency" ->
         [f.body EXCEPT !.reporterId = Some(f.actor), !.status = Some("active")]
    [] f.op = "createVolunteer" ->
         [f.body EXCEPT !.userId = Some(f.actor), !.fireStationId = Some(f.roster[1]),
                        !.status = Some("active")]

\* the notification the route creates for every recipient
FanoutNotification(f) ==
  CASE f.op = "createResourceRequest" ->
         [ userId |-> 0, title |-> "Resource Request", type |-> "request", read |-> FALSE,
           content |-> Content(f.actor, Some(ParseResourceRequest(FanoutObject(f)).quantity),
                               Some(ParseResourceRequest(FanoutObject(f)).resourceType)) ]
    [] f.op = "createEmergency" ->
         [ userId |-> 0, title |-> "Emergency Alert", type |-> "emergency", read |-> FALSE,
           content |-> Content(f.actor, Null, Some(ParseEmergency(FanoutObject(f)).title)) ]
    [] f.op = "createVolunteer" ->
         [ userId |-> 0, title |-> "New Volunteer", type |-> "volunteer", read |-> FALSE,
           content |-> Content(f.actor, Null, Null) ]

\* the users storage.getAllNGOs, or getAllFireStations().filter, returns
RecipientIds(f) ==
  IF f.op = "createResourceRequest" THEN NgoIds(users) ELSE OtherFireStations(users, f.actor)

\* the request arrives: authentication, role check and insert schema
BeginFanout(op, actor, body) ==
  /\ fanout.pc = "idle"
  /\ IF actor = NoSession THEN
       Respond(op, actor, body, 401) /\ UNCHANGED <<store, fanout>>
     ELSE IF op = "createVolunteer" THEN
       IF ~IsLocal(users[actor]) THEN
         Respond(op, actor, body, 403) /\ UNCHANGED <<store, fanout>>
       ELSE IF ~ValidVolunteer([body EXCEPT !.userId = Some(actor),
                                !.fireStationId = fireStationIdOf(users[actor], body)]) THEN
         Respond(op, actor, body, 400) /\ UNCHANGED <<store, fanout>>
       ELSE
         /\ fanout' = StartFanout(op, actor, body,
                                  <<Val(fireStationIdOf(users[actor], body))>>)
         /\ UNCHANGED <<store, resp>>
     ELSE
       IF ~IsFireStation(users[actor]) THEN
         Respond(op, actor, body, 403) /\ UNCHANGED <<store, fanout>>
       ELSE IF ~( IF op = "createResourceRequest"
                  THEN ValidResourceRequest([body EXCEPT !.requesterId = Some(actor)])
                  ELSE ValidEmergency([body EXCEPT !.reporterId = Some(actor)]) ) THEN
         Respond(op, actor, body, 400) /\ UNCHANGED <<store, fanout>>
       ELSE
         /\ fanout' = StartFanout(op, actor, body, <<>>)
         /\ UNCHANGED <<store, resp>>

\* res.status(201).json(entity), once the loop is over
FinishFanout ==
  /\ Respond(fanout.op, fanout.actor, fanout.body, 201)
  /\ fanout' = IdleFanout

\* storage.createResourceRequest / createEmergency / createVolunteer
InsertEntity ==
  LET f == fanout IN
  /\ f.pc = "insert"
  /\ CASE f.op = "createResourceRequest" ->
            /\ resourceRequests' =
                 createResourceRequest(resourceRequests, ParseResourceRequest(FanoutObject(f)))
            /\ UNCHANGED <<emergencies, volunteers>>
       [] f.op = "createEmergency" ->
            /\ emergencies' = createEmergency(emergencies, ParseEmergency(FanoutObject(f)))
            /\ UNCHANGED <<resourceRequests, volunteers>>
       [] f.op = "createVolunteer" ->
            /\ volunteers' = createVolunteer(volunteers, ParseVolunteer(FanoutObject(f)))
            /\ UNCHANGED <<resourceRequests, emergencies>>
  /\ fanout' = [f EXCEPT !.pc = IF f.op = "createVolunteer" THEN "notify" ELSE "select"]
  /\ UNCHANGED <<users, donations, notifications, resp>>

\* storage.getAllNGOs / storage.getAllFireStations: with nobody to notify the
\* loop is skipped and the route answers
SelectRecipients ==
  LET f == fanout IN
  /\ f.pc = "select"
  /\ \E roster \in Orders(RecipientIds(f)) :
       IF roster = <<>>
       THEN FinishFanout
       ELSE /\ fanout' = [f EXCEPT !.pc = "notify", !.roster = roster, !.left = roster]
            /\ UNCHANGED resp
  /\ UNCHANGED store

\* one storage.createNotification of the loop; after the last one the route answers
NotifyNext ==
  LET f == fanout IN
  /\ f.pc = "notify"
  /\ notifications' =
       createNotification(notifications, [FanoutNotification(f) EXCEPT !.userId = f.left[1]])
  /\ IF Len(f.left) = 1
     THEN FinishFanout
     ELSE fanout' = [f EXCEPT !.left = Tail(f.left)] /\ UNCHANGED resp
  /\ UNCHANGED <<users, resourceRequests, donations, volunteers, emergencies>>

\* a catch block that deletes the entity the route had inserted
ThrowFanoutUndoing ==
  LET f == fanout
      kept(table) == SubSeq(table, 1, f.before.entities) IN
  /\ f.pc # "idle"
  /\ Respond(f.op, f.actor, f.body, 400)
  /\ fanout' = IdleFanout
  /\ resourceRequests' =
       IF f.op = "createResourceRequest" THEN kept(resourceRequests) ELSE resourceRequests
  /\ emergencies' = IF f.op = "createEmergency" THEN kept(emergencies) ELSE emergencies
  /\ volunteers' = IF f.op = "createVolunteer" THEN kept(volunteers) ELSE volunteers
  /\ UNCHANGED <<users, donations, notifications>>

\* the storage call the execution is waiting for rejects: the catch block of
\* the route answers 400, the loop is left and nothing that was written is undone
ThrowFanout ==
  LET f == fanout IN
  /\ f.pc # "idle"
  /\ Respond(f.op, f.actor, f.body, 400)
  /\ fanout' = IdleFanout
  /\ UNCHANGED store

(* ------------------------- reading notifications ----------------------- *)
\* an update that flips the flag
toggleNotificationRead(ns, notificationId) ==
  [ns EXCEPT ![notificationId].read = ~ns[notificationId].read]

\* an update that marks the row and deletes the rows created after it
markReadAndTruncate(ns, notificationId) ==
  SubSeq([ns EXCEPT ![notificationId].read = TRUE], 1, notificationId)

\* storage.markNotificationAsRead on an existing row
markNotificationAsRead(ns, notificationId) ==
  [ns EXCEPT ![notificationId].read = TRUE]

\* PATCH /api/notifications/:id
MarkNotificationRead(actor, notificationId) ==
  LET op == "markNotificationRead"
      \* wasRead records the flag the row had when the request arrived
      body == [ notificationId |-> notificationId,
                wasRead |-> notificationId \in DOMAIN notifications
                            /\ notifications[notificationId].read ] IN
  IF actor = NoSession THEN
    Respond(op, actor, body, 401) /\ UNCHANGED store
  ELSE IF notificationId \notin DOMAIN notifications THEN
    Respond(op, actor, body, 404) /\ UNCHANGED store
  ELSE
    /\ notifications' = markNotificationAsRead(notifications, notificationId)
    /\ Respond(op, actor, body, 200)
    /\ UNCHANGED <<users, resourceRequests, donations, volunteers, emergencies>>

\* storage.getNotificationsForUser: the rows of the user, newest first
RECURSIVE getNotificationsForUser(_, _)
getNotificationsForUser(ns, userId) ==
  IF ns = <<>> THEN <<>>
  ELSE (IF ns[Len(ns)].userId = userId THEN <<ns[Len(ns)]>> ELSE <<>>)
         \o getNotificationsForUser(SubSeq(ns, 1, Len(ns) - 1), userId)

\* GET /api/notifications
GetNotifications(actor) ==
  LET op == "getNotifications" IN
  /\ IF actor = NoSession
     THEN Respond(op, actor, Null, 401)
     ELSE Respond(op, actor, getNotificationsForUser(notifications, actor), 200)
  /\ UNCHANGED store

(* ------------------------------ browser -------------------------------- *)
\* WalletProvider holds wallet = {connected, publicKey, balance: {sol, usdc}}.
\* connect, disconnect and refreshBalance are async: a call in flight is a
\* record of tasks, pc naming the promise it awaits, key the public key it
\* fetches balances for and sol the SOL balance it has fetched.

\* the initial state of useState in WalletProvider
DisconnectedWallet == [connected |-> FALSE, publicKey |-> Null, sol |-> 0, usdc |-> 0]

Tasks == 1..MaxTasks

IdleTask == [pc |-> "idle", key |-> Null, sol |-> 0]

\* the public keys Phantom may answer with, and the balances the chain may hold;
\* getSOLBalance and getUSDCBalance return 0 when the RPC call fails
WalletKeys == {"K1", "K2"}
ChainBalances == {0, 5}

\* setWallet(prev => ({...prev, balance: {sol, usdc}}))
SetBalance(w, sol, usdc) == [w EXCEPT !.sol = sol, !.usdc = usdc]

\* connect(): Phantom is installed, phantomProvider.connect() is awaited
connect(t) ==
  /\ tasks[t].pc = "idle"
  /\ tasks' = [tasks EXCEPT ![t] = [IdleTask EXCEPT !.pc = "connect"]]
  /\ UNCHANGED wallet

\* phantomProvider.connect() resolves: setWallet({...prev, connected: true,
\* publicKey}) and refreshBalance(publicKey) starts with getSOLBalance
ConnectResolves(t, key) ==
  /\ tasks[t].pc = "connect"
  /\ wallet' = [wallet EXCEPT !.connected = TRUE, !.publicKey = Some(key)]
  /\ tasks' = [tasks EXCEPT ![t] = [pc |-> "sol", key |-> Some(key), sol |-> 0]]

\* disconnect(): phantomProvider.disconnect() is awaited
disconnect(t) ==
  /\ tasks[t].pc = "idle"
  /\ tasks' = [tasks EXCEPT ![t] = [IdleTask EXCEPT !.pc = "disconnect"]]
  /\ UNCHANGED wallet

\* phantomProvider.disconnect() resolves: setWallet of the disconnected state
DisconnectResolves(t) ==
  /\ tasks[t].pc = "disconnect"
  /\ wallet' = DisconnectedWallet
  /\ tasks' = [tasks EXCEPT ![t] = IdleTask]

\* phantomProvider.connect() or disconnect() rejects: the error is thrown to
\* the caller and wallet is not set
ProviderRejects(t) ==
  /\ tasks[t].pc \in {"connect", "disconnect"}
  /\ tasks' = [tasks EXCEPT ![t] = IdleTask]
  /\ UNCHANGED wallet

\* refreshBalance() with no argument: walletKey = wallet.publicKey; without a
\* key the call returns at once
refreshBalance(t) ==
  /\ tasks[t].pc = "idle"
  /\ wallet.publicKey # Null
  /\ tasks' = [tasks EXCEPT ![t] = [pc |-> "sol", key |-> wallet.publicKey, sol |-> 0]]
  /\ UNCHANGED wallet

\* getSOLBalance(walletKey) resolves and getUSDCBalance(walletKey) is awaited
SolFetched(t, sol) ==
  /\ tasks[t].pc = "sol"
  /\ tasks' = [tasks EXCEPT ![t] = [tasks[t] EXCEPT !.pc = "usdc", !.sol = sol]]
  /\ UNCHANGED wallet

\* getUSDCBalance(walletKey) resolves and the balances are set
UsdcFetched(t, usdc) ==
  /\ tasks[t].pc = "usdc"
  /\ wallet' = SetBalance(wallet, tasks[t].sol, usdc)
  /\ tasks' = [tasks EXCEPT ![t] = IdleTask]

\* ResourceBlockchainVerification.handleVerification and DonationForm.onSubmit:
\* the same steps in both components.  flow is the run of the handler: status
\* is verificationStatus / donationStatus, pc the promise the handler awaits,
\* done the awaits of this run that have resolved, issued whether the server
\* write (PATCH of the request, POST of the donation) has been sent, failed the
\* step that threw.
Components == {"ResourceBlockchainVerification", "DonationForm"}
Signatures == {"sig"}

IdleFlow ==
  [ component |-> "none", status |-> "idle", pc |-> "idle", signature |-> Null,
    done |-> {}, issued |-> FALSE, failed |-> "none" ]

\* a handler that sends the transaction and does not wait for its confirmation
AfterAwaitUnconfirmed(pc) ==
  CASE pc = "build" -> "sign"
    [] pc = "sign" -> "refresh"
    [] pc = "confirm" -> "refresh"
    [] pc = "refresh" -> "write"

\* the await that follows an await that resolved: recordResourceFulfillment /
\* processUSDCDonation, phantomProvider.signAndSendTransaction,
\* connection.confirmTransaction, refreshBalance, mutateAsync
AfterAwait(pc) ==
  CASE pc = "build" -> "sign"
    [] pc = "sign" -> "confirm"
    [] pc = "confirm" -> "refresh"
    [] pc = "refresh" -> "write"

\* the catch block of the handler, and onError of the mutation
FlowFails(step) ==
  flow' = [flow EXCEPT !.status = "error", !.pc = "idle", !.failed = step]

\* the handler is called: the checks on wallet and user, then
\* setStatus('processing') and the transaction is built
Submit(component, user) ==
  /\ flow.status = "idle"
  /\ flow.pc = "idle"
  /\ IF ~wallet.connected \/ wallet.publicKey = Null THEN
       flow' = [IdleFlow EXCEPT !.component = component, !.status = "error",
                                !.failed = "wallet"]
     ELSE IF user = Null THEN
       flow' = [IdleFlow EXCEPT !.component = component, !.status = "error",
                                !.failed = "user"]
     ELSE
       flow' = [IdleFlow EXCEPT !.component = component, !.status = "processing",
                                !.pc = "build"]
  /\ UNCHANGED wallet

\* the transaction is built, or Phantom returns the signature of the
\* transaction it sent, or the transaction is confirmed
AwaitResolves ==
  /\ flow.pc \in {"build", "sign", "confirm"}
  /\ \E signature \in Signatures :
       flow' = [flow EXCEPT !.pc = AfterAwait(flow.pc),
                            !.done = flow.done \cup {flow.pc},
                            !.signature = IF flow.pc = "sign" THEN Some(signature)
                                          ELSE flow.signature]
  /\ UNCHANGED wallet

\* any of the awaits rejects
AwaitRejects ==
  /\ flow.pc \in {"build", "sign", "confirm", "write"}
  /\ FlowFails(flow.pc)
  /\ UNCHANGED wallet

\* refreshBalance() inside signAndSendTransaction sets the balances it fetched;
\* signAndSendTransaction returns the signature and the handler sends the
\* server write
RefreshedAndWriteSent ==
  /\ flow.pc = "refresh"
  /\ \E sol \in ChainBalances, usdc \in ChainBalances :
       wallet' = SetBalance(wallet, sol, usdc)
  /\ flow' = [flow EXCEPT !.pc = AfterAwait(flow.pc),
                          !.done = flow.done \cup {flow.pc},
                          !.issued = TRUE]

\* the server answers the write: onSuccess sets the status to success
WriteResolves ==
  /\ flow.pc = "write"
  /\ flow' = [flow EXCEPT !.status = "success", !.pc = "idle",
                          !.done = flow.done \cup {flow.pc}]
  /\ UNCHANGED wallet

\* "Try Again" on the error card, "Make Another Donation" on the success card
\* of DonationForm: the form is shown again
TryAgain ==
  /\ flow.pc = "idle"
  /\ \/ flow.status = "error"
     \/ flow.status = "success" /\ flow.component = "DonationForm"
  /\ flow' = IdleFlow
  /\ UNCHANGED wallet

Init ==
  /\ users = <<>>
  /\ resourceRequests = <<>>
  /\ donations = <<>>
  /\ volunteers = <<>>
  /\ emergencies = <<>>
  /\ notifications = <<>>
  /\ resp = [op |-> "none", actor |-> 0, body |-> Null, code |-> 0]
  /\ calls = [p \in Calls |-> IdleCall]
  /\ walletWrites = <<>>
  /\ fanout = IdleFanout
  /\ wallet = DisconnectedWallet
  /\ tasks = [t \in Tasks |-> IdleTask]
  /\ flow = IdleFlow

\* registrations of the workflow: one resident, one fire station, one NGO kind
WorkflowUsers ==
  { [userType |-> "local", pinCode |-> Some(<<1, 5>>), pinCodeRangeStart |-> Null,
     pinCodeRangeEnd |-> Null],
    [userType |-> "firestation", pinCode |-> Null, pinCodeRangeStart |-> Some(<<1>>),
     pinCodeRangeEnd |-> Some(<<2>>)],
    [userType |-> "ngo", pinCode |-> Null, pinCodeRangeStart |-> Null,
     pinCodeRangeEnd |-> Null] }

Register ==
  Len(users) < MaxUsers /\ (\E u \in WorkflowUsers : CreateUser(u)) /\ UNCHANGED <<ledgerVars, fanoutVars, clientVars>>

RegisterCaller ==
  Len(users) < MaxCallers /\ (\E u \in WorkflowUsers : CreateUser(u)) /\ UNCHANGED <<ledgerVars, fanoutVars, clientVars>>

NewRequest ==
  (\E a \in Actors, b \in RequestBodies : CreateResourceRequest(a, b)) /\ UNCHANGED <<ledgerVars, fanoutVars, clientVars>>

PatchRequest ==
  /\ \E a \in Actors, r \in 1..(MaxRequests + 1), s \in PatchStatuses :
       UpdateResourceRequestStatus(a, r, s)
  /\ UNCHANGED <<ledgerVars, fanoutVars, clientVars>>

Donate ==
  (\E a \in Actors, b \in DonationBodies : CreateDonation(a, b)) /\ UNCHANGED <<ledgerVars, fanoutVars, clientVars>>

DonateMoney ==
  (\E a \in Actors, b \in MoneyBodies : CreateDonation(a, b)) /\ UNCHANGED <<ledgerVars, fanoutVars, clientVars>>

NewVolunteer ==
  (\E a \in Actors, b \in VolunteerBodies : CreateVolunteer(a, b)) /\ UNCHANGED <<ledgerVars, fanoutVars, clientVars>>

NewEmergency ==
  (\E a \in Actors, b \in EmergencyBodies : CreateEmergency(a, b)) /\ UNCHANGED <<ledgerVars, fanoutVars, clientVars>>

ReadNotification ==
  /\ \E a \in Actors, n \in 1..(MaxNotifications + 1) : MarkNotificationRead(a, n)
  /\ UNCHANGED <<ledgerVars, fanoutVars, clientVars>>

\* every route of the workflow
Next ==
  \/ Register
  \/ NewRequest
  \/ PatchRequest
  \/ Donate
  \/ NewVolunteer
  \/ NewEmergency
  \/ ReadNotification

\* registration with every kind of PIN code and range, and the resolver
RegisterAny ==
  Len(users) < MaxRegistered /\ (\E u \in InsertUsers : CreateUser(u)) /\ UNCHANGED <<ledgerVars, fanoutVars, clientVars>>
Lookup == (\E p \in LookupPins : Resolve(p)) /\ UNCHANGED <<ledgerVars, fanoutVars, clientVars>>
NextAssignment == RegisterAny \/ Lookup
SpecAssignment == Init /\ [][NextAssignment]_vars

\* two callers and the three role-checked create routes
NextRoles == RegisterCaller \/ NewRequest \/ NewVolunteer \/ NewEmergency
SpecRoles == Init /\ [][NextRoles]_vars

\* two callers and the resource-request routes
NextRequests == RegisterCaller \/ NewRequest \/ PatchRequest
SpecRequests == Init /\ [][NextRequests]_vars

\* the fan-out of a new resource request over the registered users
NextRequestFanout == Register \/ NewRequest
SpecRequestFanout == Init /\ [][NextRequestFanout]_vars

\* the fan-out of a new emergency over the registered users
NextEmergencies == Register \/ NewEmergency
SpecEmergencies == Init /\ [][NextEmergencies]_vars

\* two callers and the donation route
NextDonations == RegisterCaller \/ Donate
SpecDonations == Init /\ [][NextDonations]_vars

\* two callers and the donations that carry an amount and a currency
NextTransfers == RegisterCaller \/ DonateMoney
SpecTransfers == Init /\ [][NextTransfers]_vars

\* registration of the donors and recipients of the ledger: residents only, the
\* donation route does not look at the role
RegisterDonor ==
  /\ Len(users) < MaxCallers
  /\ \E u \in { w \in WorkflowUsers : w.userType = "local" } : CreateUser(u)
  /\ UNCHANGED <<ledgerVars, fanoutVars, clientVars>>

\* the donation route one await at a time, one request after the other;
\* every execution makes at most two writes to the wallet balances
BeginOne ==
  /\ Len(donations) < MaxTransfers
  /\ Len(walletWrites) + 2 <= 2 * MaxTransfers
  /\ Len(notifications) < MaxNotifications
  /\ \E a \in Actors, b \in LedgerBodies : BeginDonation(1, a, b)
  /\ UNCHANGED <<fanoutVars, clientVars>>
StepOne ==
  /\ SelectUser(1) \/ UpdateBalance(1) \/ InsertDonation(1) \/ NotifyRecipient(1)
  /\ UNCHANGED <<fanoutVars, clientVars>>
ThrowOne == ThrowError(1) /\ UNCHANGED <<fanoutVars, clientVars>>
NextLedger == RegisterDonor \/ BeginOne \/ StepOne \/ ThrowOne
SpecLedger == Init /\ [][NextLedger]_vars

\* the donation route one await at a time, requests overlapping; MaxCalls
\* requests are made in all, each taking the first free slot of calls
Begin ==
  /\ Len(donations) + Cardinality(InFlight) < MaxCalls
  /\ Len(notifications) + Cardinality(InFlight) < MaxNotifications
  /\ \E p \in Calls, a \in Actors, b \in RaceBodies :
       /\ \A q \in 1..(p - 1) : calls[q].pc # "idle"
       /\ BeginDonation(p, a, b)
  /\ UNCHANGED <<fanoutVars, clientVars>>
Step ==
  /\ \E p \in Calls :
       SelectUser(p) \/ UpdateBalance(p) \/ InsertDonation(p) \/ NotifyRecipient(p)
  /\ UNCHANGED <<fanoutVars, clientVars>>
NextLedgerRace == RegisterDonor \/ Begin \/ Step
SpecLedgerRace == Init /\ [][NextLedgerRace]_vars

\* registration of fire stations only: the emergency route notifies fire
\* stations and the route that reads a notification does not look at the role
RegisterStation ==
  /\ Len(users) < MaxUsers
  /\ \E u \in { w \in WorkflowUsers : w.userType = "firestation" } : CreateUser(u)
  /\ UNCHANGED <<ledgerVars, fanoutVars, clientVars>>

\* the fan-out of a new emergency and the route that reads notifications
NextNotifications == RegisterStation \/ NewEmergency \/ ReadNotification
SpecNotifications == Init /\ [][NextNotifications]_vars

\* two registrations in any order and the routes that follow a registration
NextSnapshot ==
  RegisterCaller \/ DonateMoney \/ NewRequest \/ NewVolunteer \/ NewEmergency
SpecSnapshot == Init /\ [][NextSnapshot]_vars

\* the routes that write an entity with a status, for two callers, the create
\* routes with bodies that carry a status
DonateWithStatus ==
  /\ Len(donations) < MaxTransfers
  /\ \E a \in Actors, b \in StatusBodies : CreateDonation(a, b)
  /\ UNCHANGED <<ledgerVars, fanoutVars, clientVars>>
NextStatuses ==
  \/ RegisterCaller
  \/ NewRequest
  \/ PatchRequest
  \/ DonateWithStatus
  \/ NewVolunteer
  \/ NewEmergency
SpecStatuses == Init /\ [][NextStatuses]_vars

\* two callers and donations of an amount of either sign
DonateSigned ==
  /\ \E a \in Actors, b \in SignedBodies : CreateDonation(a, b)
  /\ UNCHANGED <<ledgerVars, fanoutVars, clientVars>>
NextSignedTransfers == RegisterCaller \/ DonateSigned
SpecSignedTransfers == Init /\ [][NextSignedTransfers]_vars

\* the routes that create no entity, next to the fan-out of a resource request
ListNotifications ==
  /\ \E a \in Actors : GetNotifications(a)
  /\ UNCHANGED <<ledgerVars, fanoutVars, clientVars>>
NextFrame ==
  \/ Register
  \/ NewRequest
  \/ PatchRequest
  \/ ReadNotification
  \/ ListNotifications
SpecFrame == Init /\ [][NextFrame]_vars

\* the four create routes one await at a time, one request after the other:
\* a request arrives when no other is in flight and fewer than MaxFanouts
\* entities are stored
Stored == Len(resourceRequests) + Len(emergencies) + Len(volunteers) + Len(donations)
NoneInFlight == fanout.pc = "idle" /\ \A p \in Calls : calls[p].pc = "idle"

RequestArrives ==
  /\ Stored < MaxFanouts /\ NoneInFlight
  /\ \E a \in Actors, b \in RequestBodies : BeginFanout("createResourceRequest", a, b)
  /\ UNCHANGED <<ledgerVars, clientVars>>
EmergencyArrives ==
  /\ Stored < MaxFanouts /\ NoneInFlight
  /\ \E a \in Actors, b \in EmergencyBodies : BeginFanout("createEmergency", a, b)
  /\ UNCHANGED <<ledgerVars, clientVars>>
VolunteerArrives ==
  /\ Stored < MaxFanouts /\ NoneInFlight
  /\ \E a \in Actors, b \in VolunteerBodies : BeginFanout("createVolunteer", a, b)
  /\ UNCHANGED <<ledgerVars, clientVars>>
DonationArrives == Stored < MaxFanouts /\ NoneInFlight /\ BeginOne
StepFanout ==
  /\ InsertEntity \/ SelectRecipients \/ (Len(notifications) < MaxNotifications /\ NotifyNext)
  /\ UNCHANGED <<ledgerVars, clientVars>>
FailFanout == ThrowFanout /\ UNCHANGED <<ledgerVars, clientVars>>

\* the create routes one await at a time, every storage call free to reject
NextFanout ==
  \/ Register
  \/ RequestArrives
  \/ EmergencyArrives
  \/ VolunteerArrives
  \/ DonationArrives
  \/ StepFanout
  \/ FailFanout
  \/ StepOne
  \/ ThrowOne
SpecFanout == Init /\ [][NextFanout]_vars

\* WalletProvider: the calls a component can make and the promises that settle
Connect == (\E t \in Tasks : connect(t)) /\ UNCHANGED <<flow, serverVars>>
Connected ==
  (\E t \in Tasks, key \in WalletKeys : ConnectResolves(t, key)) /\ UNCHANGED <<flow, serverVars>>
Disconnect == (\E t \in Tasks : disconnect(t)) /\ UNCHANGED <<flow, serverVars>>
Disconnected == (\E t \in Tasks : DisconnectResolves(t)) /\ UNCHANGED <<flow, serverVars>>
Rejected == (\E t \in Tasks : ProviderRejects(t)) /\ UNCHANGED <<flow, serverVars>>
Refresh == (\E t \in Tasks : refreshBalance(t)) /\ UNCHANGED <<flow, serverVars>>
FetchedSol ==
  (\E t \in Tasks, sol \in ChainBalances : SolFetched(t, sol)) /\ UNCHANGED <<flow, serverVars>>
FetchedUsdc ==
  (\E t \in Tasks, usdc \in ChainBalances : UsdcFetched(t, usdc))
    /\ UNCHANGED <<flow, serverVars>>
NextWallet ==
  \/ Connect
  \/ Connected
  \/ Disconnect
  \/ Disconnected
  \/ Rejected
  \/ Refresh
  \/ FetchedSol
  \/ FetchedUsdc
SpecWallet == Init /\ [][NextWallet]_vars

\* a component that signs a transaction and then writes to the server, over
\* a wallet that connects and disconnects; the user of useAuth is present or not
Submitted ==
  /\ \E component \in Components, user \in {Null, Some(1)} : Submit(component, user)
  /\ UNCHANGED <<tasks, serverVars>>
Resolved == AwaitResolves /\ UNCHANGED <<tasks, serverVars>>
Failed == AwaitRejects /\ UNCHANGED <<tasks, serverVars>>
WriteSent == RefreshedAndWriteSent /\ UNCHANGED <<tasks, serverVars>>
WriteAnswered == WriteResolves /\ UNCHANGED <<tasks, serverVars>>
Again == TryAgain /\ UNCHANGED <<tasks, serverVars>>
NextFlow ==
  \/ NextWallet
  \/ Submitted
  \/ Resolved
  \/ Failed
  \/ WriteSent
  \/ WriteAnswered
  \/ Again
SpecFlow == Init /\ [][NextFlow]_vars

Spec == Init /\ [][Next]_vars

(* ======================= properties of the resolver ==================== *)
Min(a, b) == IF a <= b THEN a ELSE b

\* a <= b in the lexicographic order of strings: a is a prefix of b, or a is
\* smaller at the first position where the two differ
LexLeq(a, b) ==
  \/ Len(a) <= Len(b) /\ \A k \in 1..Len(a) : a[k] = b[k]
  \/ \E k \in 1..Min(Len(a), Len(b)) :
       a[k] < b[k] /\ \A j \in 1..(k - 1) : a[j] = b[j]

\* the roster entry has a range and the range contains the code
Covers(station, code) ==
  /\ station.userType = "firestation"
  /\ station.pinCodeRangeStart # Null
  /\ station.pinCodeRangeEnd # Null
  /\ LexLeq(Val(station.pinCodeRangeStart), code)
  /\ LexLeq(code, Val(station.pinCodeRangeEnd))

ResolverResultRight(us, r) ==
  LET code == r.body.pinCode
      roster == r.body.roster
      found == r.body.found
      hits == { i \in DOMAIN roster : Covers(us[roster[i]], code) } IN
  /\ (found # Null) <=> (hits # {})
  /\ found # Null =>
       \E i \in hits : roster[i] = Val(found) /\ \A j \in hits : i <= j

\* C6: the resolver returns a station iff some roster entry has
\* rangeStart <= code <= rangeEnd in the lexicographic order of strings, the
\* station returned is the first such entry in roster order, and the call
\* changes no stored state.
C6_ResolverFirstMatch ==
  [][ resp'.op = "getFireStationsByPinCode" =>
        ResolverResultRight(users', resp') /\ UNCHANGED store ]_vars

\* a lookup found the second roster entry of two, for a code that is inside
\* the range as a string and outside it as a number
C6_Witness ==
  /\ resp.op = "getFireStationsByPinCode"
  /\ resp.body.pinCode = <<1, 5>>
  /\ Len(resp.body.roster) = 2
  /\ resp.body.found = Some(resp.body.roster[2])
  /\ users[resp.body.roster[2]].pinCodeRangeEnd = Some(<<2>>)

(* ===================== properties of the assignment ==================== *)
Residents == { i \in DOMAIN users : users[i].userType = "local" /\ users[i].pinCode # Null }

AssignedToCoveringStation(i) ==
  /\ users[i].assignedFireStationId # Null
  /\ Val(users[i].assignedFireStationId) \in DOMAIN users
  /\ Covers(users[Val(users[i].assignedFireStationId)], Val(users[i].pinCode))

\* C7 as stated: every resident whose code lies inside the range of some
\* registered fire station is assigned to a fire station whose range contains it.
C7_Original ==
  \A i \in Residents :
    (\E f \in DOMAIN users : Covers(users[f], Val(users[i].pinCode)))
      => AssignedToCoveringStation(i)

\* C7 amended: every resident whose code lies inside the range of some fire
\* station registered before the resident is assigned to one fire station whose
\* range contains the code; a resident no earlier station covers has no assignment.
C7_AssignedAtRegistration ==
  \A i \in Residents :
    IF \E f \in 1..(i - 1) : Covers(users[f], Val(users[i].pinCode))
    THEN AssignedToCoveringStation(i)
    ELSE users[i].assignedFireStationId = Null

\* two stations cover the code of a resident registered after them, a third
\* station registered later covers it too
C7_Witness ==
  /\ Len(users) >= 3
  /\ users[3].userType = "local"
  /\ users[3].pinCode = Some(<<1, 5>>)
  /\ Covers(users[1], <<1, 5>>)
  /\ Covers(users[2], <<1, 5>>)
  /\ users[3].assignedFireStationId = Some(2)

(* ======================= properties of the routes ====================== *)
Authenticated(r) == r.actor # NoSession
RoleOf(r) == users[r.actor].userType

\* C1: createResourceRequest and createEmergency by an authenticated actor that
\* is not a fire station, and createVolunteer by an authenticated actor that is
\* not a resident, are answered 403 and leave every table unchanged.
C1_WrongRoleRejected ==
  [][ /\ ( /\ resp'.op \in {"createResourceRequest", "createEmergency"}
           /\ Authenticated(resp')
           /\ RoleOf(resp') # "firestation" )
           => resp'.code = 403 /\ UNCHANGED store
      /\ ( /\ resp'.op = "createVolunteer"
           /\ Authenticated(resp')
           /\ RoleOf(resp') # "local" )
           => resp'.code = 403 /\ UNCHANGED store ]_vars

\* a resident asked for an emergency with a valid body and was refused
C1_Witness ==
  /\ resp.op = "createEmergency"
  /\ Authenticated(resp)
  /\ RoleOf(resp) = "local"
  /\ resp.body.title = Some("Fire")
  /\ resp.body.severity = "high"
  /\ resp.code = 403
  /\ emergencies = <<>>

ResourceGroup(d) == <<d.resourceType, d.resourceQuantity>>
MoneyGroup(d) == <<d.amount, d.currency>>
GroupFull(g) == g[1] # Null /\ g[2] # Null
GroupEmpty(g) == g[1] = Null /\ g[2] = Null

\* C2: every stored donation has exactly one of the two field groups
\* populated, the other group being null.
C2_ExactlyOneGroup ==
  \A i \in DOMAIN donations :
    \/ GroupFull(ResourceGroup(donations[i])) /\ GroupEmpty(MoneyGroup(donations[i]))
    \/ GroupFull(MoneyGroup(donations[i])) /\ GroupEmpty(ResourceGroup(donations[i]))

Balance(us, id) == us[id].walletBalance

\* a createDonation that answered 201 for a body carrying an amount and a currency
MoneyDonationAccepted(r) ==
  /\ r.op = "createDonation"
  /\ r.code = 201
  /\ r.body.amount # Null
  /\ r.body.currency # Null

\* C3 as stated: after an accepted donation of amount A with a currency, the
\* donor's balance is its old balance minus A and the recipient's balance is
\* its old balance plus A.
C3_Original ==
  [][ MoneyDonationAccepted(resp') =>
        LET D == resp'.actor
            R == Val(resp'.body.recipientId)
            A == Val(resp'.body.amount) IN
        /\ Balance(users', D) = Balance(users, D) - A
        /\ R \in DOMAIN users => Balance(users', R) = Balance(users, R) + A ]_vars

\* C3 amended: after an accepted donation of amount A with a currency other
\* than the empty string, from donor D to a recipient id R different from D, the
\* donor's balance is its old balance minus A and the balance of R, when R is a
\* stored user, is its old balance plus A; when R is D, or the currency is the
\* empty string, no balance changes.
C3_TransferBetweenTwoUsers ==
  [][ MoneyDonationAccepted(resp') =>
        LET D == resp'.actor
            R == Val(resp'.body.recipientId)
            A == Val(resp'.body.amount) IN
        IF Val(resp'.body.currency) = "" \/ R = D
        THEN \A u \in DOMAIN users : Balance(users', u) = Balance(users, u)
        ELSE /\ Balance(users', D) = Balance(users, D) - A
             /\ R \in DOMAIN users => Balance(users', R) = Balance(users, R) + A ]_vars

\* the second donation of 20 from user 2 to user 1 has just been accepted
C3_Witness ==
  /\ MoneyDonationAccepted(resp)
  /\ resp.actor = 2
  /\ resp.body.recipientId = Some(1)
  /\ resp.body.currency = Some("USDC")
  /\ Len(donations) = 2
  /\ Balance(users, 2) = 0 - 40
  /\ Balance(users, 1) = 40

TerminalStatuses == {"fulfilled", "cancelled"}

\* C4: a resource request whose status is fulfilled or cancelled keeps that
\* status in every later step.
C4_TerminalStatusKept ==
  [][ \A i \in DOMAIN resourceRequests :
        resourceRequests[i].status \in TerminalStatuses
          => resourceRequests'[i].status = resourceRequests[i].status ]_vars

\* C5: a status update whose status is missing or outside {pending, fulfilled,
\* cancelled} is answered 400 (401 without a session) and changes no table;
\* every stored resource request has one of the three statuses.
C5_UnknownStatusRejected ==
  [][ /\ ( /\ resp'.op = "updateResourceRequestStatus"
           /\ \/ resp'.body.status = Null
              \/ Val(resp'.body.status) \notin {"pending", "fulfilled", "cancelled"} )
           => /\ resp'.code = IF Authenticated(resp') THEN 400 ELSE 401
              /\ UNCHANGED store
      /\ \A i \in DOMAIN resourceRequests' :
           resourceRequests'[i].status \in {"pending", "fulfilled", "cancelled"} ]_vars

\* a fire station asked to archive its own fulfilled request and was refused
C5_Witness ==
  /\ resp.op = "updateResourceRequestStatus"
  /\ Authenticated(resp)
  /\ resp.body.status = Some("archived")
  /\ resp.body.requestId \in DOMAIN resourceRequests
  /\ resourceRequests[resp.body.requestId].status = "fulfilled"
  /\ resourceRequests[resp.body.requestId].requesterId = resp.actor
  /\ resp.code = 400

\* the notifications a step appended
Appended(old, new) == { k \in DOMAIN new : k > Len(old) }
Extends(old, new) == Len(new) >= Len(old) /\ SubSeq(new, 1, Len(old)) = old

\* C8: a createResourceRequest answered 201 stores one new request with status
\* pending and appends exactly one notification of type request for every NGO
\* registered at the call, and no notification for anyone else.
C8_RequestNotifiesEveryNgo ==
  [][ (resp'.op = "createResourceRequest" /\ resp'.code = 201) =>
        LET new == Appended(notifications, notifications') IN
        /\ Len(resourceRequests') = Len(resourceRequests) + 1
        /\ Extends(resourceRequests, resourceRequests')
        /\ resourceRequests'[Len(resourceRequests')].status = "pending"
        /\ Extends(notifications, notifications')
        /\ \A k \in new : notifications'[k].type = "request"
        /\ \A u \in DOMAIN users :
             Cardinality({ k \in new : notifications'[k].userId = u })
               = IF users[u].userType = "ngo" THEN 1 ELSE 0
        /\ \A k \in new : notifications'[k].userId \in DOMAIN users ]_vars

\* a fire station's request carrying status fulfilled in its body has just
\* notified the two registered NGOs
C8_Witness ==
  /\ resp.op = "createResourceRequest"
  /\ resp.code = 201
  /\ resp.body.status = Some("fulfilled")
  /\ Cardinality({ u \in DOMAIN users : users[u].userType = "ngo" }) = 2
  /\ Len(notifications) >= 2
  /\ resourceRequests[Len(resourceRequests)].status = "pending"
  /\ \A k \in {Len(notifications) - 1, Len(notifications)} :
       notifications[k].type = "request" /\ users[notifications[k].userId].userType = "ngo"

\* C9: a createEmergency answered 201 for fire station F stores one new
\* emergency with status active and appends exactly one notification of type
\* emergency for every other registered fire station, none for F and none for
\* a resident or an NGO.
C9_EmergencyNotifiesOtherStations ==
  [][ (resp'.op = "createEmergency" /\ resp'.code = 201) =>
        LET new == Appended(notifications, notifications')
            F == resp'.actor IN
        /\ Len(emergencies') = Len(emergencies) + 1
        /\ Extends(emergencies, emergencies')
        /\ emergencies'[Len(emergencies')].status = "active"
        /\ Extends(notifications, notifications')
        /\ \A k \in new : notifications'[k].type = "emergency"
        /\ \A u \in DOMAIN users :
             Cardinality({ k \in new : notifications'[k].userId = u })
               = IF users[u].userType = "firestation" /\ u # F THEN 1 ELSE 0
        /\ \A k \in new : notifications'[k].userId \in DOMAIN users ]_vars

\* an emergency reported by one of two fire stations, with a third user that
\* is no fire station, has notified the other station only
C9_Witness ==
  /\ resp.op = "createEmergency"
  /\ resp.code = 201
  /\ Cardinality({ u \in DOMAIN users : users[u].userType = "firestation" }) = 2
  /\ Len(users) = 3
  /\ Len(notifications) = 1
  /\ notifications[1].type = "emergency"
  /\ notifications[1].userId # resp.actor
  /\ emergencies[1].status = "active"

\* C10: a createDonation whose recipientId is no stored user is rejected and
\* changes no table: no donation, no notification, no wallet balance.
C10_UnknownRecipientRejected ==
  [][ ( /\ resp'.op = "createDonation"
        /\ Authenticated(resp')
        /\ resp'.body.recipientId # Null
        /\ Val(resp'.body.recipientId) \notin DOMAIN users )
        => resp'.code \notin {200, 201} /\ UNCHANGED store ]_vars
(* ===================== properties of the notifications ================= *)
\* C11: a markNotificationRead by an authenticated caller on an existing
\* notification answers 200 whether the notification was read already or not;
\* afterwards the notification is read, its other fields, every other
\* notification and every other table are unchanged; on a notification already
\* read the call changes nothing, and the update applied again gives the same table.
C11_MarkReadIdempotent ==
  [][ ( /\ resp'.op = "markNotificationRead"
        /\ Authenticated(resp')
        /\ resp'.body.notificationId \in DOMAIN notifications ) =>
        LET n == resp'.body.notificationId IN
        /\ resp'.code = 200
        /\ DOMAIN notifications' = DOMAIN notifications
        /\ notifications'[n].read = TRUE
        /\ \A f \in {"id", "userId", "title", "content", "type"} :
             notifications'[n][f] = notifications[n][f]
        /\ \A k \in DOMAIN notifications \ {n} : notifications'[k] = notifications[k]
        /\ UNCHANGED <<users, resourceRequests, donations, volunteers, emergencies>>
        /\ notifications[n].read => notifications' = notifications
        /\ markNotificationAsRead(notifications', n) = notifications' ]_vars

\* a notification that was read already has been marked read again with 200,
\* while another notification is still unread
C11_Witness ==
  /\ resp.op = "markNotificationRead"
  /\ resp.code = 200
  /\ resp.body.wasRead
  /\ notifications[resp.body.notificationId].read
  /\ \E k \in DOMAIN notifications : ~notifications[k].read

\* C14: every notification a step appends is unread, also when the caller of
\* createNotification passes read = true, and a notification that is read stays
\* read in every later step.
C14_ReadFlagOneWay ==
  [][ /\ \A k \in DOMAIN notifications :
           k \in DOMAIN notifications' /\ (notifications[k].read => notifications'[k].read)
      /\ \A k \in Appended(notifications, notifications') : notifications'[k].read = FALSE
      /\ LET ns == createNotification(notifications,
                     [ userId |-> 1, title |-> "Emergency Alert", type |-> "emergency",
                       read |-> TRUE, content |-> Content(1, Null, Some("Fire")) ]) IN
         ns[Len(ns)].read = FALSE ]_vars

\* the first notification was read, then the second one was marked read by
\* another request: the first is still read
C14_Witness ==
  /\ resp.op = "markNotificationRead"
  /\ resp.code = 200
  /\ resp.body.notificationId = 2
  /\ ~resp.body.wasRead
  /\ notifications[1].read
  /\ notifications[2].read

(* ====================== properties of the create routes ================ *)
\* C12: the requesterId of every stored resource request and the reporterId of
\* every stored emergency is the id of a fire station, the userId of every
\* stored volunteer is the id of a resident, and the id a create route stores
\* is the id of the caller whatever id the body carries.
C12_StoredIdIsTheActor ==
  [][ /\ \A i \in DOMAIN resourceRequests' :
           /\ resourceRequests'[i].requesterId \in DOMAIN users'
           /\ users'[resourceRequests'[i].requesterId].userType = "firestation"
      /\ \A i \in DOMAIN emergencies' :
           /\ emergencies'[i].reporterId \in DOMAIN users'
           /\ users'[emergencies'[i].reporterId].userType = "firestation"
      /\ \A i \in DOMAIN volunteers' :
           /\ volunteers'[i].userId \in DOMAIN users'
           /\ users'[volunteers'[i].userId].userType = "local"
      /\ (resp'.op = "createResourceRequest" /\ resp'.code = 201) =>
           resourceRequests'[Len(resourceRequests')].requesterId = resp'.actor
      /\ (resp'.op = "createEmergency" /\ resp'.code = 201) =>
           emergencies'[Len(emergencies')].reporterId = resp'.actor
      /\ (resp'.op = "createVolunteer" /\ resp'.code = 201) =>
           volunteers'[Len(volunteers')].userId = resp'.actor ]_vars

\* the second user, a fire station, sent a request whose body names the first
\* user, a resident, as requester: the request is stored for the second user
C12_Witness ==
  /\ resp.op = "createResourceRequest"
  /\ resp.code = 201
  /\ resp.actor = 2
  /\ resp.body.requesterId = Some(1)
  /\ users[1].userType = "local"
  /\ resourceRequests[Len(resourceRequests)].requesterId = 2

\* the station a createVolunteer acted for, and the notification it appended
VolunteerStored(expected) ==
  LET v == volunteers'[Len(volunteers')]
      new == Appended(notifications, notifications') IN
  /\ Len(volunteers') = Len(volunteers) + 1
  /\ Extends(volunteers, volunteers')
  /\ v.status = "active"
  /\ Some(v.fireStationId) = expected
  /\ Extends(notifications, notifications')
  /\ Cardinality(new) = 1
  /\ \A k \in new :
       notifications'[k].type = "volunteer" /\ Some(notifications'[k].userId) = expected

C15_AssignmentIsSnapshot ==
  [][ /\ \A i \in DOMAIN users :
           /\ i \in DOMAIN users'
           /\ users'[i].assignedFireStationId = users[i].assignedFireStationId
      /\ \A i \in DOMAIN users' :
           users'[i].userType \in {"firestation", "ngo"}
             => users'[i].assignedFireStationId = Null ]_vars

\* a resident registered before the station that covers its code is still
\* unassigned after that registration and after a donation that wrote its row
C15_Witness ==
  /\ Len(users) = 2
  /\ users[1].userType = "local"
  /\ users[1].pinCode = Some(<<1, 5>>)
  /\ Covers(users[2], <<1, 5>>)
  /\ users[1].assignedFireStationId = Null
  /\ users[1].walletBalance # 0
  /\ resp.op = "createDonation"
  /\ resp.code = 201

(* ======================== properties of the ledger ===================== *)
\* what a transfer of the amount of d from its donor to its recipient adds to
\* the balance of u
Delta(d, u) ==
  (IF u = d.recipientId THEN Val(d.amount) ELSE 0) - (IF u = d.donorId THEN Val(d.amount) ELSE 0)

\* C16: a createDonation answered 201 changes wallet balances iff the stored
\* donation has a non-null amount: with an amount the donor is debited and the
\* recipient credited, without one every balance is unchanged.
C16_BalancesChangeIffAmount ==
  [][ (resp'.op = "createDonation" /\ resp'.code = 201) =>
        LET d == donations'[Len(donations')] IN
        \A u \in DOMAIN users :
          Balance(users', u) =
            Balance(users, u) + (IF d.amount # Null THEN Delta(d, u) ELSE 0) ]_vars

BalanceBefore(c, u) ==
  IF u \in DOMAIN c.before.balances THEN c.before.balances[u] ELSE 0

\* the balances are those before the execution plus the transfer of d; a
\* recipient registered while the execution ran may or may not have been credited
Transferred(c, d, us) ==
  \A u \in DOMAIN us :
    \/ Balance(us, u) = BalanceBefore(c, u) + Delta(d, u)
    \/ /\ u = d.recipientId
       /\ u \notin DOMAIN c.before.balances
       /\ Balance(us, u) = BalanceBefore(c, u)

Untouched(c, us) == \A u \in DOMAIN us : Balance(us, u) = BalanceBefore(c, u)

\* the order of the effects of one execution: the ledger is written before the
\* donation is stored, the debit before the credit, the notification last
EffectsInOrder(c, moneyMoves(_)) ==
  /\ Len(donations') > Len(donations) =>
       LET d == donations'[Len(donations')] IN
       /\ d.status = "pending"
       /\ Len(notifications) = c.before.notifications
       /\ IF moneyMoves(d) THEN Transferred(c, d, users) ELSE Untouched(c, users)
  /\ (\E u \in DOMAIN users : Balance(users', u) # Balance(users, u)) =>
       /\ Len(donations) = c.before.donations
       /\ Len(notifications) = c.before.notifications
       /\ c.pc = "credit" => Balance(users, c.actor) = BalanceBefore(c, c.actor) - Val(c.body.amount)
       /\ c.pc = "debit" => Untouched(c, users)
  /\ Len(notifications') > Len(notifications) =>
       /\ Len(donations) = c.before.donations + 1
       /\ Len(donations') = Len(donations)
       /\ users' = users

HasAmount(d) == d.amount # Null
HasAmountAndCurrency(d) == d.amount \notin {Null, Some(0)} /\ d.currency \notin {Null, Some("")}

C18_DebitSurvivesFailedCredit ==
  [][ (calls[1].pc = "credit" /\ calls'[1].pc = "idle") =>
        LET c == calls[1]
            D == c.actor
            R == Val(c.body.recipientId)
            A == Val(c.body.amount) IN
        /\ resp'.op = "createDonation"
        /\ resp'.code = 400
        /\ UNCHANGED store
        /\ Balance(users', D) = BalanceBefore(c, D) - A
        /\ (R \in DOMAIN users /\ R # D) => Balance(users', R) = BalanceBefore(c, R)
        /\ Len(donations') = c.before.donations ]_vars

\* a donation of 20 from one user to the other has failed after the debit:
\* the only write is the debit, the donor is at -20, the recipient at 0 and no
\* donation is stored
C18_Witness ==
  /\ resp.op = "createDonation"
  /\ resp.code = 400
  /\ calls[1].pc = "idle"
  /\ Len(users) = 2
  /\ resp.body.recipientId \in {Some(1), Some(2)} \ {Some(resp.actor)}
  /\ Len(walletWrites) = 1
  /\ walletWrites[1].userId = resp.actor
  /\ Balance(users, resp.actor) = 0 - 20
  /\ Balance(users, Val(resp.body.recipientId)) = 0
  /\ donations = <<>>

\* the balance the k-th write of a row leaves: the balance left by the writes
\* the writer had seen when it read the row, plus its own amount
RECURSIVE BalanceAfter(_, _)
BalanceAfter(W, k) ==
  IF k = 0 THEN 0 ELSE BalanceAfter(W, W[k].version) + W[k].amount

\* C19: a call of updateUserWalletBalance writes the balance it read plus its
\* amount: when two calls on the same user both read before either writes, the
\* balance ends at old + b for the call that writes last, and the amount of
\* the other call is lost; a call that reads after the other wrote ends at
\* old + a + b.
C19_LostUpdate ==
  \A u \in DOMAIN users :
    LET W == WritesOf(walletWrites, u) IN
    /\ \A k \in DOMAIN W : W[k].version < k /\ W[k].read = BalanceAfter(W, W[k].version)
    /\ Balance(users, u) = BalanceAfter(W, Len(W))

\* user u was debited by one request and credited by another that had read
\* the balance before the debit was written: the debit is lost
C19_Witness ==
  \E u \in DOMAIN users :
    LET W == WritesOf(walletWrites, u) IN
    /\ Len(W) = 2
    /\ W[1].amount = 0 - 20
    /\ W[2].amount = 20
    /\ W[2].version = 0
    /\ Balance(users, u) = 20
    /\ \A p \in Calls : calls[p].pc = "idle"

(* ================= properties of a fan-out that fails ================== *)
\* the table of a create route after the step
EntitiesAfter(op) ==
  CASE op = "createResourceRequest" -> resourceRequests'
    [] op = "createEmergency" -> emergencies'
    [] op = "createVolunteer" -> volunteers'

\* the user id a create route stores in the row it inserts
OwnerOf(op, row) ==
  CASE op = "createResourceRequest" -> row.requesterId
    [] op = "createEmergency" -> row.reporterId
    [] op = "createVolunteer" -> row.userId

\* the execution of a create route ends with an error while it selects or
\* notifies its recipients
FanoutFails ==
  fanout.pc \in {"select", "notify"} /\ fanout'.pc = "idle" /\ resp'.code = 400

\* the execution of the donation route ends with an error while it notifies
DonationNotifyFails ==
  calls[1].pc = "notify" /\ calls'[1].pc = "idle" /\ resp'.code = 400

\* C21: when a storage call of the fan-out fails, the request is answered 400,
\* the entity the route inserted is still the row it appended to its table, no
\* table loses a row in any step, and after a donation with an amount and a
\* currency the balances are still those the two ledger calls wrote.
C21_FanoutFailureKeepsEntity ==
  [][ /\ FanoutFails =>
           LET f == fanout
               k == f.before.entities + 1 IN
           /\ UNCHANGED store
           /\ Len(EntitiesAfter(f.op)) = k
           /\ EntitiesAfter(f.op)[k].id = k
           /\ OwnerOf(f.op, EntitiesAfter(f.op)[k]) = f.actor
           /\ Len(notifications') >= f.before.notifications
      /\ DonationNotifyFails =>
           LET c == calls[1]
               k == c.before.donations + 1
               d == donations'[k] IN
           /\ UNCHANGED store
           /\ Len(donations') = k
           /\ d.donorId = c.actor
           /\ Some(d.recipientId) = c.body.recipientId
           /\ d.amount = c.body.amount
           /\ IF HasAmountAndCurrency(d) THEN Transferred(c, d, users') ELSE Untouched(c, users')
      /\ Extends(resourceRequests, resourceRequests')
      /\ Extends(donations, donations')
      /\ Extends(volunteers, volunteers')
      /\ Extends(emergencies, emergencies') ]_vars

\* a resource request was answered 400 after its first NGO was notified and
\* before the second was: the request is stored
C21_Witness ==
  /\ resp.op = "createResourceRequest"
  /\ resp.code = 400
  /\ fanout.pc = "idle"
  /\ Cardinality(NgoIds(users)) = 2
  /\ Len(resourceRequests) = 1
  /\ resourceRequests[1].requesterId = resp.actor
  /\ resourceRequests[1].status = "pending"
  /\ Len(notifications) = 1
  /\ notifications[1].type = "request"

\* the recipients of the execution that have a notification created since it began
Notified(f, ns) ==
  { u \in DOMAIN users :
      \E k \in DOMAIN ns : k > f.before.notifications /\ ns[k].userId = u }

\* C22: when storage.createNotification fails for one recipient of a resource
\* request or an emergency, every other recipient selected is notified and the
\* route answers 201.
C22_FailuresIsolated ==
  [][ ( /\ fanout.op \in {"createResourceRequest", "createEmergency"}
        /\ fanout.pc = "notify"
        /\ fanout'.pc = "idle" ) =>
        LET f == fanout
            failed == IF resp'.code = 201 THEN {} ELSE {f.left[1]} IN
        /\ resp'.code = 201
        /\ \A k \in DOMAIN f.roster :
             f.roster[k] \in failed \/ f.roster[k] \in Notified(f, notifications') ]_vars

(* ===================== properties of the stored status ================= *)
\* C23: every stored donation has status pending, every stored emergency and
\* every stored volunteer has status active, after any sequence of route calls
\* and whatever status the body of the create call carried.
C23_CreationStatusKept ==
  /\ \A i \in DOMAIN donations : donations[i].status = "pending"
  /\ \A i \in DOMAIN emergencies : emergencies[i].status = "active"
  /\ \A i \in DOMAIN volunteers : volunteers[i].status = "active"

\* a donation sent with status completed, a volunteer sent with status
\* inactive and an emergency sent with status resolved are stored
C23_Witness ==
  /\ resp.op = "createEmergency"
  /\ resp.code = 201
  /\ resp.body.status = Some("resolved")
  /\ Len(donations) >= 1
  /\ Len(volunteers) >= 1
  /\ Len(emergencies) >= 1
  /\ \E i \in DOMAIN donations : donations[i].amount # Null

(* ================== properties of the notification set ================= *)
\* what a notification says and to whom, apart from its read flag
Message(n) == [id |-> n.id, userId |-> n.userId, title |-> n.title,
               content |-> n.content, type |-> n.type]
Messages(ns) == [ k \in DOMAIN ns |-> Message(ns[k]) ]

CreateOps == {"createResourceRequest", "createDonation", "createVolunteer", "createEmergency"}

\* C24: a status update of a resource request, a notification marked read, a
\* registration and a read of the notifications leave the ids, recipients,
\* titles, contents and types of the notifications as they were; only a create
\* route answered 201 adds notifications, and no step removes one.
C24_OnlyCreatesNotify ==
  [][ /\ resp'.op \notin CreateOps => Messages(notifications') = Messages(notifications)
      /\ Messages(notifications') # Messages(notifications) =>
           resp'.op \in CreateOps /\ resp'.code = 201
      /\ Extends(Messages(notifications), Messages(notifications')) ]_vars

\* with two notifications stored, one of them read, a resource request has
\* been set to fulfilled
C24_Witness ==
  /\ resp.op = "updateResourceRequestStatus"
  /\ resp.code = 200
  /\ Len(notifications) >= 2
  /\ notifications[1].read
  /\ ~notifications[2].read
  /\ resourceRequests[1].status = "fulfilled"

(* ================ properties of a volunteer's fire station ============= *)
\* C25: a createVolunteer by a resident who has no assigned fire station, with
\* a body that has no fireStationId, is answered 400 and changes no table.
C25_NoStationRejected ==
  [][ ( /\ resp'.op = "createVolunteer"
        /\ Authenticated(resp')
        /\ RoleOf(resp') = "local"
        /\ resp'.body.fireStationId = Null
        /\ users[resp'.actor].assignedFireStationId = Null ) =>
        resp'.code = 400 /\ UNCHANGED store ]_vars

\* a resident registered before any fire station, hence unassigned, asked to
\* volunteer without naming a station after a station had registered
C25_Witness ==
  /\ resp.op = "createVolunteer"
  /\ resp.code = 400
  /\ RoleOf(resp) = "local"
  /\ resp.body.fireStationId = Null
  /\ users[resp.actor].assignedFireStationId = Null
  /\ \E u \in DOMAIN users : users[u].userType = "firestation"
  /\ volunteers = <<>>
  /\ notifications = <<>>

\* C28: the fireStationId of every stored volunteer, and the recipient of every
\* notification of type volunteer, is the id of a stored user that is a fire station.
C28_VolunteerStationIsFireStation ==
  /\ \A i \in DOMAIN volunteers :
       /\ volunteers[i].fireStationId \in DOMAIN users
       /\ users[volunteers[i].fireStationId].userType = "firestation"
  /\ \A k \in DOMAIN notifications :
       notifications[k].type = "volunteer" =>
         /\ notifications[k].userId \in DOMAIN users
         /\ users[notifications[k].userId].userType = "firestation"

(* ===================== properties of the wallet value ================== *)
RECURSIVE SumBalances(_)
SumBalances(us) ==
  IF us = <<>> THEN 0
  ELSE us[Len(us)].walletBalance + SumBalances(SubSeq(us, 1, Len(us) - 1))

\* C26: after any sequence of createDonation calls, each run to its end before
\* the next begins, the wallet balances of all users add up to 0.
C26_WalletValueConserved == SumBalances(users) = 0

\* C27: a createDonation answered 201, by donor D for a stored recipient R other
\* than D, leaves the balance of R at or above what it was and the balance of
\* D at or below what it was.
C27_OnlyOwnDonationReduces ==
  [][ ( /\ resp'.op = "createDonation"
        /\ resp'.code = 201
        /\ Val(resp'.body.recipientId) \in DOMAIN users
        /\ Val(resp'.body.recipientId) # resp'.actor ) =>
        LET D == resp'.actor
            R == Val(resp'.body.recipientId) IN
        /\ Balance(users', R) >= Balance(users, R)
        /\ Balance(users', D) <= Balance(users, D) ]_vars

(* ======================= properties of the browser ===================== *)
\* C29: in both components the server write is sent only after the
\* transaction was built, signed and confirmed and signAndSendTransaction
\* returned its signature; when the wallet is not connected, the user is
\* absent, or building, signing or confirming fails, no write is sent and the
\* status is error; the status is success only after the write was answered.
C29_WriteOnlyAfterConfirmation ==
  /\ flow.issued =>
       {"build", "sign", "confirm"} \subseteq flow.done /\ flow.signature # Null
  /\ flow.failed \in {"wallet", "user", "build", "sign", "confirm"} =>
       ~flow.issued /\ flow.status = "error" /\ flow.pc = "idle"
  /\ flow.failed = "write" => flow.issued /\ flow.status = "error"
  /\ flow.status = "success" => flow.issued /\ "write" \in flow.done

\* the verification of a resource request has reached success: the
\* transaction was confirmed, then the PATCH was sent and answered
C29_Witness ==
  /\ flow.component = "ResourceBlockchainVerification"
  /\ flow.status = "success"
  /\ flow.issued
  /\ flow.done = {"build", "sign", "confirm", "refresh", "write"}
  /\ flow.signature = Some("sig")

\* C30: whenever wallet.connected is false, wallet.publicKey is null and the
\* SOL and USDC balances are 0.
C30_DisconnectedIsEmpty ==
  ~wallet.connected => wallet.publicKey = Null /\ wallet.sol = 0 /\ wallet.usdc = 0
====
